---- MODULE Spec2Model ----
(***************************************************************************)
(* Model of src/data/prepare_data.py, the data preparation pipeline of the *)
(* healthcare dashboard.                                                   *)
(*                                                                         *)
(* main() runs nine steps in a fixed order.  Every step prints a banner    *)
(* and fixed text; the data transformation it stands for is written in     *)
(* its docstring as a "SQL Equivalent" query.  The model keeps both: the   *)
(* control flow and the printed/reported values of the Python code, and    *)
(* the relation each query defines over the input table cdc_brfss_raw.     *)
(*                                                                         *)
(* Numbers: a percentage is an integer count of hundredths of a percent    *)
(* (10.04 % is 1004), so ROUND(x, 1) and ROUND(x, 2) are computed, not     *)
(* assumed.  A text value is a sequence of characters, so INITCAP is       *)
(* computed as well.                                                       *)
(***************************************************************************)
EXTENDS Integers, Sequences, FiniteSets, TLC

VARIABLES cdc_brfss_raw,     \* the input table, a sequence of raw rows
          pc,                \* index into MainSteps of the next step of main
          stdout,            \* the step banners printed so far, in order
          cleaned_data,      \* relation of the step 2 query
          rejections,        \* rejected rows reported by step 2
          state_level_data,  \* ordered result of the step 3 query
          trend_analysis,    \* result of the step 4 query
          demographic_summary, \* result of the step 5 query
          running,           \* aggregation stages started and not yet returned
          qa_checks,         \* step 7: check name -> status
          export_keys        \* step 8: top-level keys of the exported JSON

vars == <<cdc_brfss_raw, pc, stdout, cleaned_data, rejections,
          state_level_data, trend_analysis, demographic_summary, running,
          qa_checks, export_keys>>

\* Largest number of rows of the input table.
MaxRows == 3

\* SQL NULL in a numeric column: a number no column value takes.
NULL == 0 - 1000000

-----------------------------------------------------------------------------
(* Text and numeric helpers of the queries *)

Upper(c) ==
    CASE c = "a" -> "A" [] c = "k" -> "K" [] c = "l" -> "L" [] OTHER -> c

Lower(c) ==
    CASE c = "A" -> "a" [] c = "K" -> "k" [] c = "L" -> "l" [] OTHER -> c

\* SQL INITCAP: first letter of every word upper case, the others lower case.
INITCAP(s) ==
    [i \in 1..Len(s) |->
        IF i = 1 \/ s[i - 1] = " " THEN Upper(s[i]) ELSE Lower(s[i])]

\* n / d rounded to the nearest integer, halves away from zero (d > 0),
\* the rounding of SQL ROUND on numeric.
RoundDiv(n, d) ==
    IF n >= 0 THEN (2 * n + d) \div (2 * d)
    ELSE -((2 * (-n) + d) \div (2 * d))

\* A wrong rounding bias: adds a whole step instead of half a step.
Round1Biased(x) ==
    IF x = NULL THEN NULL ELSE 10 * ((x + 10) \div 10)

\* ROUND(x::numeric, 1) on a value in hundredths; NULL stays NULL.
Round1(x) ==
    IF x = NULL THEN NULL ELSE 10 * RoundDiv(x, 10)

RECURSIVE SumOver(_, _)
\* SUM of the integers f[r] over the rows r of the finite set S (f is a
\* function on S).
SumOver(S, f) ==
    IF S = {} THEN 0
    ELSE LET r == CHOOSE x \in S : TRUE
         IN  f[r] + SumOver(S \ {r}, [x \in S \ {r} |-> f[x]])

MaxOf(S) == CHOOSE m \in S : \A x \in S : x <= m
MinOf(S) == CHOOSE m \in S : \A x \in S : m <= x

-----------------------------------------------------------------------------
(* The input table *)

RawRow(y, st, d, o, h, i, p, ag, ss) ==
    [year |-> y, state |-> st,
     diabetes_percentage |-> d, obesity_percentage |-> o,
     heart_disease_percentage |-> h, physical_inactivity_percentage |-> i,
     population |-> p, age_group |-> ag, race_ethnicity |-> "Hispanic",
     income_level |-> "$25,000-$49,999", sample_size |-> ss]

Al == <<"A", "l">>
al == <<"a", "l">>
Ak == <<"A", "k">>

\* The rows an input table is drawn from: clean rows, two rows of one key
\* with different values, a zero prevalence, an out-of-range and a missing
\* percentage, a zero population, and a row of another demographic group
\* with the values of an existing one.
RowDomain ==
    { RawRow(2015, al,    0, 3000,   400, 2500, 100, "18-24", 10),
      RawRow(2016, Al, 1004, 3000,   400, 2500, 100, "18-24", 10),
      RawRow(2016, Al, 1005, 3120,   400, 2500, 100, "18-24", 20),
      RawRow(2016, Al, 1004, 3000,   400, 2500, 100, "65+",   10),
      RawRow(2016, Ak, 1000, 3000, 10100, 2500, 300, "18-24", 10),
      RawRow(2015, Ak, 1000, 3000,   400, 2500, 100, "18-24", 10),
      RawRow(2015, Ak,  900, 3000,   400, 2500,   0, "18-24", 10),
      RawRow(2016, Ak, NULL, 3000,   400, 2500, 100, "18-24", 10),
      RawRow(2015, Ak, 10001, 3000,  400, 2500, 100, "18-24", 10),
      RawRow(2016, Al, 1200,   -1,   400, 2500, 100, "18-24", 10) }

Tables == UNION { [1..n -> RowDomain] : n \in 0..MaxRows }

-----------------------------------------------------------------------------
(* Step 2: the cleaned_data query *)

\* The WHERE clause of the query.
CleanWhere(r) ==
    /\ r.diabetes_percentage # NULL
    /\ r.obesity_percentage # NULL
    /\ r.diabetes_percentage >= 0 /\ r.diabetes_percentage <= 10000
    /\ r.obesity_percentage >= 0 /\ r.obesity_percentage <= 10000
    /\ r.population > 0

\* The select list of the query.  The result columns keep the names of the
\* raw columns they are computed from, so that the query can read its own
\* result.
CleanSelect(r) ==
    [year |-> r.year,
     state |-> INITCAP(r.state),
     diabetes_percentage |-> Round1(r.diabetes_percentage),
     obesity_percentage |-> Round1(r.obesity_percentage),
     heart_disease_percentage |-> Round1(r.heart_disease_percentage),
     physical_inactivity_percentage |-> Round1(r.physical_inactivity_percentage),
     population |-> r.population]

\* SELECT DISTINCT ... FROM rows WHERE ...: the set of the selected rows
\* (rows is a set of rows).
CleanedData(rows) ==
    {CleanSelect(r) : r \in {x \in rows : CleanWhere(x)}}

Range(f) == {f[i] : i \in DOMAIN f}

-----------------------------------------------------------------------------
(* Step 3: the state-level query *)

\* ROUND(AVG(col), 1) over the rows of G; AVG skips NULL and is NULL when
\* nothing is left.
Avg1(G, col) ==
    LET H == {r \in G : r[col] # NULL}
    IN  IF H = {} THEN NULL
        ELSE 10 * RoundDiv(SumOver(H, [r \in H |-> r[col]]), 10 * Cardinality(H))

\* One result row of GROUP BY state.  STDDEV(diabetes_pct) is irrational in
\* general and is left out; no other column depends on it.
StateSummary(cleaned, st) ==
    LET G == {r \in cleaned : r.state = st}
    IN  [state |-> st,
         num_years |-> Cardinality({r.year : r \in G}),
         avg_diabetes_pct |-> Avg1(G, "diabetes_percentage"),
         avg_obesity_pct |-> Avg1(G, "obesity_percentage"),
         avg_heart_disease_pct |-> Avg1(G, "heart_disease_percentage"),
         avg_inactivity_pct |-> Avg1(G, "physical_inactivity_percentage"),
         min_diabetes_pct |-> MinOf({r.diabetes_percentage : r \in G}),
         max_diabetes_pct |-> MaxOf({r.diabetes_percentage : r \in G}),
         avg_population |->
             RoundDiv(SumOver(G, [r \in G |-> r.population]), Cardinality(G)),
         most_recent_year |-> MaxOf({r.year : r \in G})]

StateSummaries(cleaned) ==
    {StateSummary(cleaned, st) : st \in {r.state : r \in cleaned}}

\* ORDER BY avg_diabetes_pct DESC: every listing of the result rows with the
\* averages in descending order.  The query names no second sort key, so the
\* order of rows with equal averages is the database's choice.
StateLevelOrders(cleaned) ==
    LET S == StateSummaries(cleaned)
        n == Cardinality(S)
    IN  {q \in [1..n -> S] :
            /\ \A i, j \in 1..n : i # j => q[i] # q[j]
            /\ \A i, j \in 1..n :
                  i < j => q[i].avg_diabetes_pct >= q[j].avg_diabetes_pct}

-----------------------------------------------------------------------------
(* Step 4: the national trend query *)

\* ROUND(SUM(col * population) / SUM(population), 1) over the rows of a year.
National(cleaned, y, col) ==
    LET G == {r \in cleaned : r.year = y}
        H == {r \in G : r[col] # NULL}
    IN  IF H = {} THEN NULL
        ELSE 10 * RoundDiv(SumOver(H, [r \in H |-> r[col] * r.population]),
                           10 * SumOver(G, [r \in G |-> r.population]))

Years(cleaned) == {r.year : r \in cleaned}

\* LAG(national_diabetes_pct) OVER (ORDER BY year): the value of the row
\* before, NULL on the first row.
PrevDiabetes(cleaned, y) ==
    LET before == {z \in Years(cleaned) : z < y}
    IN  IF before = {} THEN NULL
        ELSE National(cleaned, MaxOf(before), "diabetes_percentage")

\* The division of yoy_change_pct has no guard: a previous value of 0 makes
\* the database raise "division by zero" and the query has no result.
DivisionByZero(cleaned) ==
    \E y \in Years(cleaned) : PrevDiabetes(cleaned, y) = 0

\* ROUND((curr - prev) / prev * 100, 2), in hundredths of a percent; NULL
\* when prev is NULL.
YoyChangePct(curr, prev) ==
    IF prev = NULL \/ curr = NULL THEN NULL
    ELSE IF prev > 0 THEN RoundDiv((curr - prev) * 10000, prev)
    ELSE -RoundDiv((curr - prev) * 10000, -prev)

TrendRow(cleaned, y) ==
    LET curr == National(cleaned, y, "diabetes_percentage")
        prev == PrevDiabetes(cleaned, y)
    IN  [year |-> y,
         national_diabetes_pct |-> curr,
         national_obesity_pct |-> National(cleaned, y, "obesity_percentage"),
         national_hd_pct |-> National(cleaned, y, "heart_disease_percentage"),
         national_inactivity_pct |->
             National(cleaned, y, "physical_inactivity_percentage"),
         prev_diabetes_pct |-> prev,
         yoy_change_pct |-> YoyChangePct(curr, prev)]

TrendAnalysis(cleaned) ==
    IF DivisionByZero(cleaned)
    THEN [status |-> "error", rows |-> << >>]
    ELSE [status |-> "ok",
          rows |-> [y \in Years(cleaned) |-> TrendRow(cleaned, y)]]

-----------------------------------------------------------------------------
(* Step 5: the demographic query *)

\* The columns of the cleaned_data relation: those of its select list.
CleanedColumns == DOMAIN CleanSelect(CHOOSE r \in RowDomain : TRUE)

\* SELECT age_group, ROUND(AVG(...), 1) ..., COUNT(DISTINCT state) FROM
\* cleaned_data GROUP BY age_group.  The select list of cleaned_data has no
\* age_group column, so the database rejects the query whatever the rows
\* are.  ROUND(STDDEV(diabetes_pct), 2) is left out, as in step 3.
DemographicQuery(cleaned) ==
    IF "age_group" \notin CleanedColumns
    THEN [status |-> "error", rows |-> {}]
    ELSE [status |-> "ok",
          rows |->
            {LET G == {r \in cleaned : r.age_group = g}
             IN  [age_group |-> g,
                  avg_diabetes_pct |-> Avg1(G, "diabetes_percentage"),
                  avg_obesity_pct |-> Avg1(G, "obesity_percentage"),
                  avg_heart_disease_pct |-> Avg1(G, "heart_disease_percentage"),
                  num_states |-> Cardinality({r.state : r \in G})]
             : g \in {r.age_group : r \in cleaned}}]

-----------------------------------------------------------------------------
(* Step 7 and step 8: the values the code reports *)

\* A quality gate that reads the state-level result: coverage fails.
QaChecksCoverageFail ==
    [c \in {"Completeness", "Range Validation", "Temporal Consistency",
            "Geographic Coverage", "Bounds Checking", "Outlier Detection",
            "Cross-validation"} |->
        IF c = "Geographic Coverage" THEN "FAIL" ELSE "PASS"]

\* The qa_checks dictionary of validate_data_quality, status of every check.
QaChecks ==
    [c \in {"Completeness", "Range Validation", "Temporal Consistency",
            "Geographic Coverage", "Bounds Checking", "Outlier Detection",
            "Cross-validation"} |-> "PASS"]

\* The top-level keys of the JSON structure export_to_json describes.
JsonKeys == {"states", "national_trends", "demographic_breakdown"}

-----------------------------------------------------------------------------
(* main *)

\* A wrong order of the calls: the export before the quality checks.
MainStepsExportFirst ==
    <<"load_raw_data", "clean_and_standardize_data",
      "aggregate_state_level_data", "calculate_national_trends",
      "analyze_demographic_disparities", "perform_correlation_analysis",
      "export_to_json", "validate_data_quality", "print_execution_summary">>

\* The calls of main, in order.
MainSteps ==
    <<"load_raw_data", "clean_and_standardize_data",
      "aggregate_state_level_data", "calculate_national_trends",
      "analyze_demographic_disparities", "perform_correlation_analysis",
      "validate_data_quality", "export_to_json", "print_execution_summary">>

\* main is about to call the function named step.
AtStep(step) == pc \in 1..Len(MainSteps) /\ MainSteps[pc] = step

\* The function named step has returned.
Done(step) == \E i \in 1..Len(stdout) : stdout[i] = step

\* Every function prints its banner and returns to main.
Return(step) ==
    /\ stdout' = Append(stdout, step)
    /\ pc' = pc + 1

Init ==
    /\ cdc_brfss_raw \in Tables
    /\ pc = 1
    /\ stdout = << >>
    /\ cleaned_data = {}
    /\ rejections = << >>
    /\ state_level_data = << >>
    /\ trend_analysis = [status |-> "unset", rows |-> << >>]
    /\ demographic_summary = [status |-> "unset", rows |-> {}]
    /\ running = {}
    /\ qa_checks = << >>
    /\ export_keys = {}

\* Step 1 prints the expected schema and reads nothing.
load_raw_data ==
    /\ AtStep("load_raw_data")
    /\ Return("load_raw_data")
    /\ UNCHANGED <<demographic_summary, running, cdc_brfss_raw, cleaned_data, rejections, state_level_data,
                   trend_analysis, qa_checks, export_keys>>

\* Step 2: the cleaned_data query.  The step reports four fixed data quality
\* metrics and no rejected row.
clean_and_standardize_data ==
    /\ AtStep("clean_and_standardize_data")
    /\ cleaned_data' = CleanedData(Range(cdc_brfss_raw))
    /\ rejections' = << >>
    /\ Return("clean_and_standardize_data")
    /\ UNCHANGED <<demographic_summary, running, cdc_brfss_raw, state_level_data, trend_analysis, qa_checks,
                   export_keys>>

\* Step 3: the state-level query, in one of the orders ORDER BY allows.
aggregate_state_level_data ==
    /\ AtStep("aggregate_state_level_data")
    /\ state_level_data' \in StateLevelOrders(cleaned_data)
    /\ Return("aggregate_state_level_data")
    /\ UNCHANGED <<demographic_summary, running, cdc_brfss_raw, cleaned_data, rejections, trend_analysis,
                   qa_checks, export_keys>>

\* Step 4: the national trend query.
calculate_national_trends ==
    /\ AtStep("calculate_national_trends")
    /\ trend_analysis' = TrendAnalysis(cleaned_data)
    /\ Return("calculate_national_trends")
    /\ UNCHANGED <<demographic_summary, running, cdc_brfss_raw, cleaned_data, rejections, state_level_data,
                   qa_checks, export_keys>>

\* Step 5: the demographic query; the step prints the demographic
\* dimensions and fixed insights.
analyze_demographic_disparities ==
    /\ AtStep("analyze_demographic_disparities")
    /\ demographic_summary' = DemographicQuery(cleaned_data)
    /\ Return("analyze_demographic_disparities")
    /\ UNCHANGED <<cdc_brfss_raw, cleaned_data, rejections, state_level_data,
                   trend_analysis, qa_checks, export_keys, running>>

\* Step 6 prints fixed correlation results.
perform_correlation_analysis ==
    /\ AtStep("perform_correlation_analysis")
    /\ Return("perform_correlation_analysis")
    /\ UNCHANGED <<demographic_summary, running, cdc_brfss_raw, cleaned_data, rejections, state_level_data,
                   trend_analysis, qa_checks, export_keys>>

\* Step 7 takes no argument and reports its fixed dictionary.
validate_data_quality ==
    /\ AtStep("validate_data_quality")
    /\ qa_checks' = QaChecks
    /\ Return("validate_data_quality")
    /\ UNCHANGED <<demographic_summary, running, cdc_brfss_raw, cleaned_data, rejections, state_level_data,
                   trend_analysis, export_keys>>

\* Step 8 takes no argument and describes the JSON structure.
export_to_json ==
    /\ AtStep("export_to_json")
    /\ export_keys' = JsonKeys
    /\ Return("export_to_json")
    /\ UNCHANGED <<demographic_summary, running, cdc_brfss_raw, cleaned_data, rejections, state_level_data,
                   trend_analysis, qa_checks>>

\* Step 9 prints the execution summary.
print_execution_summary ==
    /\ AtStep("print_execution_summary")
    /\ Return("print_execution_summary")
    /\ UNCHANGED <<demographic_summary, running, cdc_brfss_raw, cleaned_data, rejections, state_level_data,
                   trend_analysis, qa_checks, export_keys>>

\* main prints the completion message after the last call.
main_completed ==
    /\ pc = Len(MainSteps) + 1
    /\ stdout' = Append(stdout, "PIPELINE COMPLETED SUCCESSFULLY")
    /\ pc' = pc + 1
    /\ UNCHANGED <<demographic_summary, running, cdc_brfss_raw, cleaned_data, rejections, state_level_data,
                   trend_analysis, qa_checks, export_keys>>

Next ==
    \/ load_raw_data
    \/ clean_and_standardize_data
    \/ aggregate_state_level_data
    \/ calculate_national_trends
    \/ analyze_demographic_disparities
    \/ perform_correlation_analysis
    \/ validate_data_quality
    \/ export_to_json
    \/ print_execution_summary
    \/ main_completed

Spec == Init /\ [][Next]_vars

\* main is straight-line code without a wait: a step that can run does run.
FairSpec == Spec /\ WF_vars(Next)

Completed == pc = Len(MainSteps) + 2

-----------------------------------------------------------------------------
(* The three aggregation stages as parallel tasks *)

\* The stages that read df_cleaned and nothing else.
AggregationStages ==
    {"aggregate_state_level_data", "calculate_national_trends",
     "analyze_demographic_disparities"}

\* A stage that filters the shared table in place to its most recent year.
StageKeepsMostRecentYear(cleaned) ==
    {r \in cleaned : \A x \in cleaned : x.year <= r.year}

\* df_cleaned when a stage returns: no stage assigns to its argument.
StageLeaves(cleaned) == cleaned

\* The state of main after step 2, with the three stages ready to run.
ParInit ==
    /\ cdc_brfss_raw \in Tables
    /\ pc = 3
    /\ stdout = <<"load_raw_data", "clean_and_standardize_data">>
    /\ cleaned_data = CleanedData(Range(cdc_brfss_raw))
    /\ rejections = << >>
    /\ state_level_data = << >>
    /\ trend_analysis = [status |-> "unset", rows |-> << >>]
    /\ demographic_summary = [status |-> "unset", rows |-> {}]
    /\ running = {}
    /\ qa_checks = << >>
    /\ export_keys = {}

\* A task calls its stage with the shared df_cleaned.
StartStage(stage) ==
    /\ stage \notin running
    /\ ~Done(stage)
    /\ running' = running \cup {stage}
    /\ UNCHANGED <<cdc_brfss_raw, pc, stdout, cleaned_data, rejections,
                   state_level_data, trend_analysis, demographic_summary,
                   qa_checks, export_keys>>

\* The stage returns to its task.
ReturnStage(stage) ==
    /\ stage \in running
    /\ running' = running \ {stage}
    /\ stdout' = Append(stdout, stage)
    /\ cleaned_data' = StageLeaves(cleaned_data)
    /\ UNCHANGED <<cdc_brfss_raw, pc, rejections, qa_checks, export_keys>>

start_aggregate_state_level_data == StartStage("aggregate_state_level_data")

start_calculate_national_trends == StartStage("calculate_national_trends")

start_analyze_demographic_disparities ==
    StartStage("analyze_demographic_disparities")

finish_aggregate_state_level_data ==
    /\ state_level_data' \in StateLevelOrders(cleaned_data)
    /\ ReturnStage("aggregate_state_level_data")
    /\ UNCHANGED <<trend_analysis, demographic_summary>>

finish_calculate_national_trends ==
    /\ trend_analysis' = TrendAnalysis(cleaned_data)
    /\ ReturnStage("calculate_national_trends")
    /\ UNCHANGED <<state_level_data, demographic_summary>>

finish_analyze_demographic_disparities ==
    /\ demographic_summary' = DemographicQuery(cleaned_data)
    /\ ReturnStage("analyze_demographic_disparities")
    /\ UNCHANGED <<state_level_data, trend_analysis>>

ParNext ==
    \/ start_aggregate_state_level_data
    \/ start_calculate_national_trends
    \/ start_analyze_demographic_disparities
    \/ finish_aggregate_state_level_data
    \/ finish_calculate_national_trends
    \/ finish_analyze_demographic_disparities

ParSpec == ParInit /\ [][ParNext]_vars

-----------------------------------------------------------------------------
(* Claims *)

\* The validated rows of the input table: the rows the WHERE clause keeps.
ValidRows == {r \in Range(cdc_brfss_raw) : CleanWhere(r)}

\* Number of rows of the input table the WHERE clause drops.
RejectedCount ==
    Cardinality({i \in 1..Len(cdc_brfss_raw) : ~CleanWhere(cdc_brfss_raw[i])})

Percentages(r) ==
    {r.diabetes_percentage, r.obesity_percentage,
     r.heart_disease_percentage, r.physical_inactivity_percentage}

\* The first check a raw row fails, in the order required fields, year
\* range, state, percentage range, population and sample size; "none" for a
\* row that passes them all.
FirstViolatedRule(r) ==
    IF NULL \in Percentages(r) THEN "required_fields"
    ELSE IF r.year < 2015 \/ r.year > 2024 THEN "year_range"
    ELSE IF INITCAP(r.state) \notin {Al, Ak} THEN "state"
    ELSE IF \E v \in Percentages(r) : v < 0 \/ v > 10000 THEN "percentage_range"
    ELSE IF r.population <= 0 \/ r.sample_size <= 0 THEN "positive_counts"
    ELSE "none"

\* C1: once the cleaning step has run, every row of the input table is either
\* in the accepted set or in the rejection report with the first rule it
\* violates, and accepted count + rejected count = input row count.
C1_EveryRowAcceptedOrRejected ==
    Done("clean_and_standardize_data") =>
        /\ Cardinality(cleaned_data) + Len(rejections) = Len(cdc_brfss_raw)
        /\ \A i \in 1..Len(cdc_brfss_raw) :
              LET r == cdc_brfss_raw[i]
              IN  IF FirstViolatedRule(r) = "none"
                  THEN CleanSelect(r) \in cleaned_data
                  ELSE \E k \in 1..Len(rejections) :
                          rejections[k] = <<i, FirstViolatedRule(r)>>

\* C2: every cleaned record has its four percentages in [0, 100] and a
\* population > 0.
C2_CleanedInRange ==
    Done("clean_and_standardize_data") =>
        \A r \in cleaned_data :
            /\ \A v \in Percentages(r) : v >= 0 /\ v <= 10000
            /\ r.population > 0

\* The deduplication key of a validated row.
DedupKey(r) ==
    <<r.year, INITCAP(r.state), r.age_group, r.race_ethnicity, r.income_level>>

\* C3: the cleaned set holds at most one record per (year, state, age_group,
\* race_ethnicity, income_level) key of the validated rows, and the record
\* kept for a key comes from a row of the largest sample_size of that key.
C3_OneRecordPerKey ==
    Done("clean_and_standardize_data") =>
        \A k \in {DedupKey(r) : r \in ValidRows} :
            LET G == {r \in ValidRows : DedupKey(r) = k}
                best == {r \in G : \A x \in G : x.sample_size <= r.sample_size}
                kept == {CleanSelect(r) : r \in G} \cap cleaned_data
            IN  /\ Cardinality(kept) <= 1
                /\ kept \subseteq {CleanSelect(r) : r \in best}

Degraded == \E c \in DOMAIN qa_checks : qa_checks[c] # "PASS"

\* C5: once the quality checks have run, the run is marked degraded exactly
\* when more than 5 % of the input rows were rejected.
C5_DegradedIffRejectionRateHigh ==
    Done("validate_data_quality") =>
        (Degraded <=> 100 * RejectedCount > 5 * Len(cdc_brfss_raw))

\* C6: once the export has run, the exported structure has a metadata block,
\* which carries the degraded flag and the rejection counts.
C6_ExportCarriesMetadata ==
    Done("export_to_json") => "metadata" \in export_keys

\* Position of a step's banner in the output, 0 when it has not run.
Pos(step) ==
    IF Done(step) THEN CHOOSE i \in 1..Len(stdout) : stdout[i] = step ELSE 0

\* b has run only after a had returned.
After(a, b) == Done(b) => Done(a) /\ Pos(a) < Pos(b)

\* C7: cleaning returns before any aggregation stage runs, the correlation
\* step runs after the state aggregation, the quality checks run after all
\* aggregation stages and the correlation step, the export after the quality
\* checks.
C7_StageOrder ==
    /\ \A a \in AggregationStages : After("clean_and_standardize_data", a)
    /\ After("aggregate_state_level_data", "perform_correlation_analysis")
    /\ \A a \in AggregationStages \cup {"perform_correlation_analysis"} :
          After(a, "validate_data_quality")
    /\ After("validate_data_quality", "export_to_json")

\* C7 witness: the run is complete and the export has run.
C7_Witness == Completed /\ Done("export_to_json") /\ Len(cdc_brfss_raw) > 0

\* C8: the trend query never raises; the year-over-year change of a year is
\* NULL for the first year and for a previous value of 0, and
\* (curr - prev) / prev * 100 to two decimals otherwise.
C8_YoyNullOrRatio ==
    Done("calculate_national_trends") =>
        /\ trend_analysis.status = "ok"
        /\ \A y \in DOMAIN trend_analysis.rows :
              LET t == trend_analysis.rows[y]
                  curr == t.national_diabetes_pct
                  prev == t.prev_diabetes_pct
                  d == 2 * (t.yoy_change_pct * prev - (curr - prev) * 10000)
              IN  IF prev = NULL \/ prev = 0
                  THEN t.yoy_change_pct = NULL
                  ELSE d <= prev /\ -d <= prev

\* Character codes, for the lexicographic order of state names.
Code(c) ==
    CASE c = " " -> 32 [] c = "A" -> 65 [] c = "K" -> 75 [] c = "L" -> 76
      [] c = "a" -> 97 [] c = "k" -> 107 [] c = "l" -> 108

\* s comes before t in lexicographic order.
LexLess(s, t) ==
    \E i \in 1..(Len(t)) :
        /\ \A j \in 1..(i - 1) : j <= Len(s) /\ s[j] = t[j]
        /\ \/ i = Len(s) + 1
           \/ i <= Len(s) /\ Code(s[i]) < Code(t[i])

\* C9: the state-level result is in descending order of mean diabetes
\* prevalence, and states of equal mean are in ascending order of name.
C9_OrderedWithTieBreak ==
    Done("aggregate_state_level_data") =>
        \A i, j \in 1..Len(state_level_data) :
            i < j =>
                LET a == state_level_data[i]
                    b == state_level_data[j]
                IN  \/ a.avg_diabetes_pct > b.avg_diabetes_pct
                    \/ /\ a.avg_diabetes_pct = b.avg_diabetes_pct
                       /\ LexLess(a.state, b.state)

\* The 50 states and DC.
CanonicalStateCount == 51

\* C10: the completeness and geographic coverage checks pass only when the
\* state-level result has exactly 51 distinct states.
C10_CoveragePassNeeds51 ==
    Done("validate_data_quality") =>
        (qa_checks["Completeness"] = "PASS"
            /\ qa_checks["Geographic Coverage"] = "PASS"
         => Cardinality({state_level_data[i].state :
                            i \in 1..Len(state_level_data)})
            = CanonicalStateCount)

\* The cleaned set the stages were handed.
CleanedSnapshot == CleanedData(Range(cdc_brfss_raw))

FullRun ==
    <<"load_raw_data", "clean_and_standardize_data",
      "aggregate_state_level_data", "calculate_national_trends",
      "analyze_demographic_disparities", "perform_correlation_analysis",
      "validate_data_quality", "export_to_json", "print_execution_summary",
      "PIPELINE COMPLETED SUCCESSFULLY">>

\* What holds in every state of a run: the steps so far are the first steps
\* of FullRun, once each; the quality checks, once run, are seven and all
\* PASS; the run is not marked degraded.
C12_State ==
    /\ Len(stdout) <= Len(FullRun)
    /\ \A i \in 1..Len(stdout) : stdout[i] = FullRun[i]
    /\ Completed => stdout = FullRun
    /\ Done("validate_data_quality") =>
          /\ Cardinality(DOMAIN qa_checks) = 7
          /\ \A c \in DOMAIN qa_checks : qa_checks[c] = "PASS"
    /\ ~Degraded

====
